---------------------------- MODULE Spec2Model ----------------------------
(***************************************************************************)
(* A model of allensdk/model/glif/rc.py: the box-filter smoothing and the  *)
(* three least-squares fits of a single-compartment RC circuit.            *)
(*                                                                         *)
(* Arithmetic.  The program computes in IEEE double precision.  The model  *)
(* computes over the rationals, extended with the three special values a   *)
(* float division can produce (+inf, -inf, nan), so that 1/0 and 0*inf     *)
(* behave as numpy's scalar arithmetic does (a warning, not an exception). *)
(* Rounding error is not modelled: a value the program gets "to machine    *)
(* precision" the model gets exactly.                                      *)
(*                                                                         *)
(* A number is a pair <<n, d>>: d > 0 and gcd(n, d) = 1 for the rational   *)
(* n/d; <<1, 0>> is +inf, <<-1, 0>> is -inf and <<0, 0>> is nan.           *)
(*                                                                         *)
(* Evaluation.  An operator that reads an argument several times binds it  *)
(* first, as  CHOOSE r \in {body : a \in {argument}} : TRUE,  which is     *)
(* body with a standing for the argument's value: the model checker then   *)
(* evaluates the argument once instead of once per use.                    *)
(***************************************************************************)
EXTENDS Integers, Sequences, FiniteSets, TLC

----------------------------------------------------------------------------
(* Extended rational arithmetic (Python float / numpy.float64 operators).  *)

Abs(x) == IF x < 0 THEN -x ELSE x

Sgn(x) == IF x > 0 THEN 1 ELSE IF x < 0 THEN -1 ELSE 0

Max(a, b) == IF a >= b THEN a ELSE b

Min(a, b) == IF a <= b THEN a ELSE b

RECURSIVE GCD(_, _)
GCD(a, b) == IF b = 0 THEN a ELSE GCD(b, a % b)

Norm(n, d) ==
    CHOOSE r \in {<<(Sgn(d) * n) \div g, Abs(d) \div g>>
                  : g \in {GCD(Abs(n), Abs(d))}} : TRUE

Rat(k) == <<k, 1>>

Zero == <<0, 1>>

One == <<1, 1>>

Inf == <<1, 0>>

NaN == <<0, 0>>

IsFinite(a) == a[2] # 0

IsZero(a) == a[2] # 0 /\ a[1] = 0

RAdd(x, y) ==
    CHOOSE r \in
      {IF a[2] # 0 /\ b[2] # 0
         THEN CHOOSE q \in
                {Norm(a[1] * (b[2] \div g) + b[1] * (a[2] \div g),
                      (a[2] \div g) * b[2]) : g \in {GCD(a[2], b[2])}} : TRUE
       ELSE IF b[2] # 0 THEN a
       ELSE IF a[2] # 0 THEN b
       ELSE IF a = b THEN a ELSE NaN : a \in {x}, b \in {y}} : TRUE

RNeg(x) == CHOOSE r \in {<<-a[1], a[2]>> : a \in {x}} : TRUE

RSub(a, b) == RAdd(a, RNeg(b))

RMul(x, y) ==
    CHOOSE r \in
      {IF a[2] # 0 /\ b[2] # 0
         THEN CHOOSE q \in
                {Norm((a[1] \div g) * (b[1] \div h),
                      (a[2] \div h) * (b[2] \div g))
                 : g \in {GCD(Abs(a[1]), b[2])},
                   h \in {GCD(Abs(b[1]), a[2])}} : TRUE
       ELSE <<Sgn(a[1]) * Sgn(b[1]), 0>> : a \in {x}, b \in {y}} : TRUE

\* 1/a: 1/0 is inf (the sign of a float zero is not modelled), 1/inf is 0.
RInv(x) ==
    CHOOSE r \in
      {IF a[2] = 0 THEN (IF a[1] = 0 THEN NaN ELSE Zero)
       ELSE IF a[1] = 0 THEN Inf
       ELSE Norm(a[2], a[1]) : a \in {x}} : TRUE

RDiv(a, b) == RMul(a, RInv(b))

----------------------------------------------------------------------------
(* Vectors (numpy 1-d arrays) are sequences of numbers; matrices (2-d      *)
(* arrays) are sequences of rows.                                          *)

\* s[1] + ... + s[m]
RECURSIVE SumTo(_, _)
SumTo(s, m) == IF m = 0 THEN Zero ELSE RAdd(SumTo(s, m - 1), s[m])

SumSeq(s0) == CHOOSE r \in {SumTo(s, Len(s)) : s \in {s0}} : TRUE

\* A Python slice bound x on a sequence of length n: negative counts from
\* the end, and the result is clipped to 0..n.
Bound(x, n) == IF x < 0 THEN Max(n + x, 0) ELSE Min(x, n)

\* Python's s[a:b] (0-based, b excluded).
Slice(s, a, b) ==
    LET lo == Bound(a, Len(s))
        hi == Bound(b, Len(s))
    IN  IF hi <= lo THEN <<>> ELSE [j \in 1..(hi - lo) |-> s[lo + j]]

\* A^T A, for a matrix of n columns
Gram(A0, n) ==
    CHOOSE g \in
      {[p \in 1..n |-> [q \in 1..n |->
          SumSeq([r \in 1..Len(A) |-> RMul(A[r][p], A[r][q])])]]
       : A \in {A0}} : TRUE

\* A^T b
Moment(A0, b0, n) ==
    CHOOSE g \in
      {[p \in 1..n |-> SumSeq([r \in 1..Len(A) |-> RMul(A[r][p], b[r])])]
       : A \in {A0}, b \in {b0}} : TRUE

MatMul(M0, N0, n) ==
    CHOOSE g \in
      {[p \in 1..n |-> [q \in 1..n |->
          SumSeq([r \in 1..n |-> RMul(M[p][r], N[r][q])])]]
       : M \in {M0}, N \in {N0}} : TRUE

MatVec(M0, x0, n) ==
    CHOOSE g \in
      {[p \in 1..n |-> SumSeq([r \in 1..n |-> RMul(M[p][r], x[r])])]
       : M \in {M0}, x \in {x0}} : TRUE

Trace(M0, n) ==
    CHOOSE g \in {SumSeq([p \in 1..n |-> M[p][p]]) : M \in {M0}} : TRUE

\* a*M + b*N + c*I
Comb(a0, M0, b0, N0, c0, n) ==
    CHOOSE g \in
      {[p \in 1..n |-> [q \in 1..n |->
          RAdd(RAdd(RMul(a, M[p][q]), RMul(b, N[p][q])),
               IF p = q THEN c ELSE Zero)]]
       : a \in {a0}, M \in {M0}, b \in {b0}, N \in {N0}, c \in {c0}} : TRUE

\* The principal 2 x 2 minor of N on rows and columns p and q
Minor(N, p, q) == RSub(RMul(N[p][p], N[q][q]), RMul(N[p][q], N[q][p]))

\* The determinant of a 3 x 3 matrix, along its first row
Det3(N) ==
    RAdd(RSub(RMul(N[1][1], RSub(RMul(N[2][2], N[3][3]),
                                 RMul(N[2][3], N[3][2]))),
              RMul(N[1][2], RSub(RMul(N[2][1], N[3][3]),
                                 RMul(N[2][3], N[3][1])))),
         RMul(N[1][3], RSub(RMul(N[2][1], N[3][2]),
                            RMul(N[2][2], N[3][1]))))

\* The elementary symmetric functions e1, e2, e3 of the eigenvalues of an
\* n x n matrix, n <= 3: its trace, the sum of its principal 2 x 2 minors,
\* its determinant (0 when n < 3).
Symmetric(N, n) ==
    <<Trace(N, n),
      SumSeq([j \in 1..((n * (n - 1)) \div 2) |->
                IF j = 1 THEN Minor(N, 1, 2)
                ELSE IF j = 2 THEN Minor(N, 1, 3) ELSE Minor(N, 2, 3)]),
      IF n = 3 THEN Det3(N) ELSE Zero>>

\* N, N^2 and the symmetric functions of N
Powers(N0, n) ==
    CHOOSE g \in
      {<<N, MatMul(N, N, n), Symmetric(N, n)>> : N \in {N0}} : TRUE

(***************************************************************************)
(* The Moore-Penrose inverse of a symmetric positive semi-definite n x n   *)
(* matrix N, n <= 3.  With e1, e2, e3 as above: of full rank,              *)
(* (N^2 - e1 N + e2 I)/e3; of rank 2, (e1 P - N)/e2 with P the projection  *)
(* (e1 N - N^2)/e2 on the range of N; of rank 1, N/e1^2.                   *)
(***************************************************************************)
PInv(N0, n) ==
    CHOOSE g \in
      {IF ~IsZero(w[3][3])
         THEN Comb(RInv(w[3][3]), w[2], RNeg(RDiv(w[3][1], w[3][3])), w[1],
                   RDiv(w[3][2], w[3][3]), n)
       ELSE IF ~IsZero(w[3][2])
         THEN Comb(RDiv(w[3][1], w[3][2]),
                   Comb(RDiv(w[3][1], w[3][2]), w[1],
                        RNeg(RInv(w[3][2])), w[2], Zero, n),
                   RNeg(RInv(w[3][2])), w[1], Zero, n)
       ELSE IF ~IsZero(w[3][1])
         THEN Comb(RInv(RMul(w[3][1], w[3][1])), w[1], Zero, w[1], Zero, n)
       ELSE Comb(Zero, w[1], Zero, w[1], Zero, n)
       : w \in {Powers(N0, n)}} : TRUE

\* The rank of A (n columns, n <= 3).
Rank(A, n) ==
    CHOOSE g \in
      {IF ~IsZero(w[3][3]) THEN 3
       ELSE IF ~IsZero(w[3][2]) THEN 2
       ELSE IF ~IsZero(w[3][1]) THEN 1 ELSE 0
       : w \in {Powers(Gram(A, n), n)}} : TRUE

----------------------------------------------------------------------------
(* The numpy operations the module calls.  Each returns a record whose err *)
(* field is "" on success and the exception's name otherwise.              *)

Ok(v) == [err |-> "", val |-> v]

Raise(e) == [err |-> e, val |-> <<>>]

\* np.ones((m, n))
Ones(m, n) == [r \in 1..m |-> [c \in 1..n |-> One]]

\* matrix[:, col] = v  (v of the column's length, or of length 1: broadcast)
SetColumn(matrix0, col, v0) ==
    CHOOSE g \in
      {IF Len(v) = Len(matrix)
         THEN Ok([r \in 1..Len(matrix) |-> [matrix[r] EXCEPT ![col] = v[r]]])
       ELSE IF Len(v) = 1
         THEN Ok([r \in 1..Len(matrix) |-> [matrix[r] EXCEPT ![col] = v[1]]])
       ELSE Raise("ValueError") : matrix \in {matrix0}, v \in {v0}} : TRUE

\* a - b on 1-d arrays (equal lengths, or one of length 1: broadcast)
VecSub(a0, b0) ==
    CHOOSE g \in
      {IF Len(a) = Len(b)
         THEN Ok([j \in 1..Len(a) |-> RSub(a[j], b[j])])
       ELSE IF Len(b) = 1
         THEN Ok([j \in 1..Len(a) |-> RSub(a[j], b[1])])
       ELSE IF Len(a) = 1
         THEN Ok([j \in 1..Len(b) |-> RSub(a[1], b[j])])
       ELSE Raise("ValueError") : a \in {a0}, b \in {b0}} : TRUE

\* a * s and a / s, s a scalar
VecScale(a0, s0) ==
    CHOOSE g \in {[j \in 1..Len(a) |-> RMul(a[j], s)]
                  : a \in {a0}, s \in {s0}} : TRUE

VecDiv(a0, s0) ==
    CHOOSE g \in {[j \in 1..Len(a) |-> RDiv(a[j], s)]
                  : a \in {a0}, s \in {s0}} : TRUE

(***************************************************************************)
(* np.linalg.lstsq(a, b)[0] for a of n <= 3 columns: the least-squares     *)
(* solution of minimum norm, (a^T a)^+ a^T b, whatever the rank of a (no   *)
(* exception on a rank-deficient a).  It raises LinAlgError when b has not *)
(* as many entries as a has rows.  On a matrix of no rows the answer is    *)
(* the build's: numpy up to 1.13 raises ValueError (math domain error in   *)
(* the workspace computation), later numpy returns the zero vector.        *)
(***************************************************************************)
lstsq(a0, b0, n, bld) ==
    CHOOSE g \in
      {IF Len(a) # Len(b) THEN Raise("LinAlgError")
       ELSE IF Len(a) = 0
         THEN (IF bld = "legacy" THEN Raise("ValueError")
               ELSE Ok([p \in 1..n |-> Zero]))
       ELSE Ok(MatVec(PInv(Gram(a, n), n), Moment(a, b, n), n))
       : a \in {a0}, b \in {b0}} : TRUE

----------------------------------------------------------------------------
(* smooth (lines 8-42).                                                    *)

\* Python 2's round(q, 1), in tenths: the nearest tenth, halves away from
\* zero.  q is finite.
RoundTenths(q) ==
    Sgn(q[1]) * ((2 * 10 * Abs(q[1]) + q[2]) \div (2 * q[2]))

\* The integer a legacy numpy makes of the float shape t/10: truncation.
TruncTenths(t) == Sgn(t) * (Abs(t) \div 10)

\* The number of samples of the kernel of line 28.
FilterWidth(filter_size_s, dt) ==
    TruncTenths(RoundTenths(RDiv(filter_size_s, dt)))

(***************************************************************************)
(* Line 28, np.ones((round(filter_size_s/dt, 1))): the shape is a float.   *)
(* A legacy numpy (up to 1.11) truncates it to an integer, with a          *)
(* deprecation warning; a later numpy raises TypeError.  A negative shape  *)
(* raises ValueError.                                                      *)
(***************************************************************************)
MakeKernel(filter_size_s, dt, bld) ==
    LET w == FilterWidth(filter_size_s, dt)
    IN  IF bld # "legacy" THEN Raise("TypeError")
        ELSE IF w < 0 THEN Raise("ValueError")
        ELSE Ok([j \in 1..w |-> One])

\* Line 29, sq_filt/len(sq_filt): elementwise, so an empty kernel divides
\* nothing and stays empty.
NormaliseKernel(sq_filt) == VecDiv(sq_filt, Rat(Len(sq_filt)))

\* Entry j (0-based) of the full convolution of a and v.
FullConv(a, v, j) ==
    SumSeq([m \in 1..Len(a) |->
              IF j - (m - 1) >= 0 /\ j - (m - 1) < Len(v)
                THEN RMul(a[m], v[j - (m - 1) + 1])
                ELSE Zero])

(***************************************************************************)
(* np.convolve(a, v, 'same'): the operands are swapped when v is the       *)
(* longer, an empty operand raises ValueError, and the result is the       *)
(* centred max(len(a), len(v)) entries of the full convolution.            *)
(***************************************************************************)
ConvolveSame(a0, v0) ==
    CHOOSE g \in
      {IF Min(Len(a), Len(v)) = 0 THEN Raise("ValueError")
       ELSE Ok([j \in 1..Max(Len(a), Len(v)) |->
                  FullConv(a, v, j - 1 + (Min(Len(a), Len(v)) - 1
                                          - (Min(Len(a), Len(v)) \div 2)))])
       : a \in {a0}, v \in {v0}} : TRUE

\* Line 40 and the return of line 42, from the three convolutions.
SmoothResult(cv, cvs, ci, dt) ==
    IF cv.err # "" THEN [err |-> cv.err, line |-> 37, val |-> <<>>]
    ELSE IF cvs.err # "" THEN [err |-> cvs.err, line |-> 38, val |-> <<>>]
    ELSE IF ci.err # "" THEN [err |-> ci.err, line |-> 39, val |-> <<>>]
    ELSE [err |-> "", line |-> 0,
          val |-> [sm_v |-> cv.val, sm_i |-> ci.val,
                   sm_dvdt |-> VecDiv(VecSub(cvs.val, cv.val).val, dt)]]

\* Lines 32-42: the three truncated series, their convolutions, the
\* difference quotient.
SmoothSeries(voltage0, current0, sq_filt0, dt) ==
    CHOOSE g \in
      {CHOOSE h \in
         {SmoothResult(cv, cvs, ci, dt)
          : cv  \in {ConvolveSame(Slice(voltage, 0, Len(voltage) - 1), sq_filt)},
            cvs \in {ConvolveSame(Slice(voltage, 1, Len(voltage)), sq_filt)},
            ci  \in {ConvolveSame(Slice(current, 0, Len(voltage) - 1), sq_filt)}}
         : TRUE
       : voltage \in {voltage0}, current \in {current0},
         sq_filt \in {sq_filt0}} : TRUE

----------------------------------------------------------------------------
(* The per-sweep bodies of the three fits.  Each returns the locals the    *)
(* body has bound when it ends, and in err the exception that ended it.    *)

\* Lines 65-67: C = 1/a1, R = -1/(C*a0), El = C*R*a2.
InvertSmoothed(lsq_der_sm) ==
    CHOOSE g \in
      {CHOOSE h \in
         {[R |-> r, C |-> c, El |-> RMul(RMul(c, r), lsq_der_sm[3])]
          : r \in {RDiv(RNeg(One), RMul(c, lsq_der_sm[1]))}} : TRUE
       : c \in {RDiv(One, lsq_der_sm[2])}} : TRUE

\* What a body leaves for R, C and El when it raises before binding them.
NoFit == [R |-> <<>>, C |-> <<>>, El |-> <<>>]

\* Lines 61-62: the design matrix of the smoothed fit.
DesignSmoothed(sm_v, sm_i) ==
    CHOOSE g \in
      {CHOOSE h \in
         {[err |-> m2.err, val |-> IF m2.err # "" THEN m1 ELSE m2.val]
          : m2 \in {SetColumn(m1, 2, sm_i)}} : TRUE
       : m1 \in {SetColumn(Ones(Len(sm_v), 3), 1, sm_v).val}} : TRUE

\* Lines 60-67 of least_squares_simple_circuit_with_smoothing_fit_RCEl.
SmoothedBody(sm_v, sm_i, sm_dvdt, bld) ==
    CHOOSE g \in
      {CHOOSE h \in
         {CHOOSE f \in
            {[err |-> sol.err, line |-> IF m.err # "" THEN 62 ELSE 64,
              matrix |-> m.val, target |-> sm_dvdt, out |-> sol.val,
              R |-> fit.R, C |-> fit.C, El |-> fit.El]
             : fit \in {IF sol.err # "" THEN NoFit
                        ELSE InvertSmoothed(sol.val)}} : TRUE
          : sol \in {IF m.err # "" THEN Raise(m.err)
                     ELSE lstsq(m.val, sm_dvdt, 3, bld)}} : TRUE
       : m \in {DesignSmoothed(sm_v, sm_i)}} : TRUE

\* A cut that keeps the sample at end_idx as well: what the window
\* properties must tell from StimCut.
StimCutInclusive(series, start_idx, end_idx) ==
    Slice(series, start_idx, end_idx + 1)

\* Lines 98-99: series[stim_start:stim_start+stim_dur], stim_dur being
\* end_idx - start_idx (line 95) and stim_start being start_idx (line 96).
StimCut(series, start_idx, end_idx) ==
    Slice(series, start_idx, start_idx + (end_idx - start_idx))

\* An inversion that takes b0 for the leak term 1 - b0: what the round trip
\* must tell from InvertRCEl.
InvertRCElNoLeak(out, dt) ==
    [R |-> RDiv(dt, RMul(RDiv(dt, out[2]), out[1])),
     C |-> RDiv(dt, out[2]),
     El |-> RDiv(RMul(RMul(RDiv(dt, out[2]),
                           RDiv(dt, RMul(RDiv(dt, out[2]), out[1]))),
                      out[3]), dt)]

\* Lines 109-111: C = dt/b1, R = dt/(C*(1-b0)), El = C*R*b2/dt.
InvertRCEl(out, dt) ==
    CHOOSE g \in
      {CHOOSE h \in
         {[R |-> resistance, C |-> capacitance,
           El |-> RDiv(RMul(RMul(capacitance, resistance), out[3]), dt)]
          : resistance \in {RDiv(dt, RMul(capacitance, RSub(One, out[1])))}}
         : TRUE
       : capacitance \in {RDiv(dt, out[2])}} : TRUE

\* Lines 104-106: the design matrix of least_squares_simple_circuit_fit_RCEl.
DesignRCEl(voltage, current) ==
    CHOOSE g \in
      {CHOOSE h \in
         {[err |-> m2.err, val |-> IF m2.err # "" THEN m1 ELSE m2.val]
          : m2 \in {SetColumn(m1, 2, current)}} : TRUE
       : m1 \in {SetColumn(Ones(Len(voltage), 3), 1, voltage).val}} : TRUE

\* Lines 101-111, on the series lines 91-99 kept.
RCElSolve(kept_v, kept_c, dt, bld) ==
    CHOOSE g \in
      {CHOOSE h \in
         {CHOOSE f \in
            {[err |-> sol.err, line |-> IF m.err # "" THEN 106 ELSE 107,
              voltage |-> Slice(kept_v, 0, -1),
              current |-> Slice(kept_c, 0, -1),
              matrix |-> m.val, target |-> Slice(kept_v, 1, Len(kept_v)),
              out |-> sol.val, R |-> fit.R, C |-> fit.C, El |-> fit.El]
             : fit \in {IF sol.err # "" THEN NoFit
                        ELSE InvertRCEl(sol.val, dt)}} : TRUE
          : sol \in {IF m.err # "" THEN Raise(m.err)
                     ELSE lstsq(m.val, Slice(kept_v, 1, Len(kept_v)), 3,
                                bld)}} : TRUE
       : m \in {DesignRCEl(Slice(kept_v, 0, -1), Slice(kept_c, 0, -1))}}
      : TRUE

\* Lines 91-111 of least_squares_simple_circuit_fit_RCEl, start_idx and
\* end_idx being what get_stim_characteristics returned (read only under
\* no_rest).
RCElBody(voltage0, current0, dt, no_rest, start_idx, end_idx, bld) ==
    IF no_rest
      THEN RCElSolve(StimCut(voltage0, start_idx, end_idx),
                     StimCut(current0, start_idx, end_idx), dt, bld)
      ELSE RCElSolve(voltage0, current0, dt, bld)

\* A design matrix with the voltage in the second column: what the layout
\* property must tell from DesignREl.
DesignRElSwapped(voltage) == SetColumn(Ones(Len(voltage), 2), 2, voltage).val

\* Lines 142-143: the design matrix of least_squares_simple_circuit_fit_REl.
DesignREl(voltage) == SetColumn(Ones(Len(voltage), 2), 1, voltage).val

\* Line 144: v_nplus1 - (current*dt)/Cap
TargetREl(v_nplus1, current, Cap, dt) ==
    VecSub(v_nplus1, VecDiv(VecScale(current, dt), Cap))

\* Lines 146-147: R = dt/(Cap*(1-c0)), El = Cap*R*c1/dt.
InvertREl(out, Cap, dt) ==
    CHOOSE g \in
      {[R |-> resistance, C |-> <<>>,
        El |-> RDiv(RMul(RMul(Cap, resistance), out[2]), dt)]
       : resistance \in {RDiv(dt, RMul(Cap, RSub(One, out[1])))}} : TRUE

\* Lines 139-147 of least_squares_simple_circuit_fit_REl.
RElBody(voltage0, current0, Cap, dt, bld) ==
    CHOOSE g \in
      {CHOOSE h \in
         {CHOOSE f \in
            {[err |-> sol.err, line |-> 144,
              voltage |-> Slice(voltage0, 0, -1),
              current |-> Slice(current0, 0, -1),
              matrix |-> DesignREl(Slice(voltage0, 0, -1)),
              target |-> tgt.val, out |-> sol.val,
              R |-> fit.R, C |-> <<>>, El |-> fit.El]
             : fit \in {IF sol.err # "" THEN NoFit
                        ELSE InvertREl(sol.val, Cap, dt)}} : TRUE
          : sol \in {IF tgt.err # "" THEN Raise(tgt.err)
                     ELSE lstsq(DesignREl(Slice(voltage0, 0, -1)), tgt.val,
                                2, bld)}} : TRUE
       : tgt \in {TargetREl(Slice(voltage0, 1, Len(voltage0)),
                            Slice(current0, 0, -1), Cap, dt)}} : TRUE

\* list.insert(0, x): what the order property must tell from AppendResult.
PrependResult(list, x) == <<x>> \o list

\* list.append(x), lines 69-71, 113-115 and 149-150
AppendResult(list, x) == Append(list, x)

\* zip(voltage_list, current_list): the number of pairs the loops visit
ZipLen(vl, cl) == Min(Len(vl), Len(cl))

----------------------------------------------------------------------------
(* The state: one call of one of the module's four functions.              *)

VARIABLES
    fn,               \* the function called
    build,            \* "legacy" or "modern": the numpy the program runs on
    voltage_list,     \* arguments of the three fits
    current_list,
    dt,
    filter_size,      \* filter_size_s of smooth, filter_size of the fit
    Cap,
    no_rest,
    pc,               \* where the call is; "returned" and "raised" end it
    k,                \* 1-based position of the loops in zip(...)
    err,              \* the exception that ended the call, "" if none
    err_line,         \* the source line that raised it, 0 if none
    voltage,          \* locals named as in the source
    current,
    sq_filt,
    sm_v,
    sm_i,
    sm_dvdt,
    matrix,
    target,           \* the right-hand side handed to lstsq
    out,
    start_idx,
    end_idx,
    R,
    C,
    El,
    resistance_list,  \* r_list in the smoothed fit
    capacitance_list, \* c_list in the smoothed fit
    El_list,
    spikes,           \* what find_spikes_list reported, sweep by sweep
    warnings,         \* the sweeps logging.warning was called for
    stim_calls,       \* the calls of get_stim_characteristics
    result,           \* the value returned
    sim               \* the R, C, El a simulated sweep was generated from

inputs == <<fn, build, voltage_list, current_list, dt, filter_size, Cap,
            no_rest, sim>>

smooth_locals == <<sq_filt, sm_v, sm_i, sm_dvdt>>

fit_locals == <<matrix, target, out, R, C, El>>

lists == <<resistance_list, capacitance_list, El_list>>

environment == <<spikes, warnings, stim_calls, start_idx, end_idx>>

vars == <<inputs, pc, k, err, err_line, voltage, current, smooth_locals,
          fit_locals, lists, environment, result>>

\* A local not yet bound, a result not yet returned.
Unbound == <<>>

----------------------------------------------------------------------------
(* smooth, as a call of its own or from the smoothed fit.                  *)

\* Lines 28-29: the kernel and its normalisation.
SmoothKernel ==
    /\ pc = "kernel"
    /\ \E ker \in {MakeKernel(filter_size, dt, build)} :
           IF ker.err # ""
             THEN /\ pc' = "raised"
                  /\ err' = ker.err
                  /\ err_line' = 28
                  /\ UNCHANGED sq_filt
             ELSE /\ sq_filt' = NormaliseKernel(ker.val)
                  /\ pc' = "convolve"
                  /\ UNCHANGED <<err, err_line>>
    /\ UNCHANGED <<inputs, k, voltage, current, sm_v, sm_i, sm_dvdt,
                   fit_locals, lists, environment, result>>

\* Lines 32-42: the convolutions, the difference quotient, the return.
SmoothConvolve ==
    /\ pc = "convolve"
    /\ \E sm \in {SmoothSeries(voltage, current, sq_filt, dt)} :
           IF sm.err # ""
             THEN /\ pc' = "raised"
                  /\ err' = sm.err
                  /\ err_line' = sm.line
                  /\ UNCHANGED <<sm_v, sm_i, sm_dvdt, result>>
             ELSE /\ sm_v' = sm.val.sm_v
                  /\ sm_i' = sm.val.sm_i
                  /\ sm_dvdt' = sm.val.sm_dvdt
                  /\ IF fn = "smooth"
                       THEN /\ pc' = "returned"
                            /\ result' = <<sm.val.sm_v, sm.val.sm_i,
                                           sm.val.sm_dvdt>>
                       ELSE /\ pc' = "solve"
                            /\ UNCHANGED result
                  /\ UNCHANGED <<err, err_line>>
    /\ UNCHANGED <<inputs, k, voltage, current, sq_filt, fit_locals, lists,
                   environment>>

----------------------------------------------------------------------------
(* least_squares_simple_circuit_with_smoothing_fit_RCEl (lines 45-72).     *)

\* Line 58: the loop takes the next pair of zip(voltage_list, current_list)
\* and (line 59) calls smooth on it.
SmoothFitNext ==
    /\ fn = "with_smoothing"
    /\ pc = "loop"
    /\ k <= ZipLen(voltage_list, current_list)
    /\ voltage' = voltage_list[k]
    /\ current' = current_list[k]
    /\ pc' = "kernel"
    /\ UNCHANGED <<inputs, k, err, err_line, smooth_locals, fit_locals,
                   lists, environment, result>>

\* Lines 60-71: the design matrix, the solve, the inversion, the appends.
SmoothFitSolve ==
    /\ fn = "with_smoothing"
    /\ pc = "solve"
    /\ \E b \in {SmoothedBody(sm_v, sm_i, sm_dvdt, build)} :
           /\ matrix' = b.matrix
           /\ target' = b.target
           /\ IF b.err # ""
                THEN /\ pc' = "raised"
                     /\ err' = b.err
                     /\ err_line' = b.line
                     /\ UNCHANGED <<k, out, R, C, El, lists>>
                ELSE /\ out' = b.out
                     /\ R' = b.R
                     /\ C' = b.C
                     /\ El' = b.El
                     /\ resistance_list' = AppendResult(resistance_list, b.R)
                     /\ capacitance_list' = AppendResult(capacitance_list, b.C)
                     /\ El_list' = AppendResult(El_list, b.El)
                     /\ k' = k + 1
                     /\ pc' = "loop"
                     /\ UNCHANGED <<err, err_line>>
    /\ UNCHANGED <<inputs, voltage, current, smooth_locals, environment,
                   result>>

\* A return of the first sweep's fit: what the last-sweep property must tell
\* from SmoothFitResult.
SmoothFitResultFirst(r, c, el, r_list, c_list, el_list) ==
    <<r_list[1], c_list[1], el_list[1]>>

\* Line 72: return R, C, El
SmoothFitResult(r, c, el, r_list, c_list, el_list) == <<r, c, el>>

\* Line 72, once the loop is exhausted.  R, C and El are unbound when the
\* loop ran no iteration: UnboundLocalError.
SmoothFitReturn ==
    /\ fn = "with_smoothing"
    /\ pc = "loop"
    /\ k > ZipLen(voltage_list, current_list)
    /\ IF R = Unbound
         THEN /\ pc' = "raised"
              /\ err' = "UnboundLocalError"
              /\ err_line' = 72
              /\ UNCHANGED result
         ELSE /\ pc' = "returned"
              /\ result' = SmoothFitResult(R, C, El, resistance_list,
                                           capacitance_list, El_list)
              /\ UNCHANGED <<err, err_line>>
    /\ UNCHANGED <<inputs, k, voltage, current, smooth_locals, fit_locals,
                   lists, environment>>

----------------------------------------------------------------------------
(* The collaborators of least_squares_simple_circuit_fit_RCEl.  Their code *)
(* is not part of this module; each is an oracle over what its interface   *)
(* allows.                                                                 *)

\* len(spikes[0]) for the list find_spikes_list([voltage], dt) returns
SpikeCounts == {0, 1}

\* (start_idx, end_idx) of get_stim_characteristics(current, t,
\* no_test_pulse=True): two sample indices of current, in either order (an
\* extractor that reads the stimulus off the steps of the current returns
\* end_idx <= start_idx for a current of one or two steps).
StimWindows(current0) == (0..Len(current0)) \X (0..Len(current0))

\* Line 93: t = np.arange(0, len(current)) * dt
TimeArray(current0, step) == [j \in 1..Len(current0) |-> RMul(Rat(j - 1), step)]

\* A test that passes over a single spike: what the warning property must
\* tell from SpikeFound.
SpikeFoundTwice(n) == n > 1

\* Line 89: len(spikes[0]) > 0
SpikeFound(n) == n > 0

----------------------------------------------------------------------------
(* least_squares_simple_circuit_fit_RCEl (lines 74-122).                   *)

\* Lines 87-115: one pass of the loop body.
FitRCElSweep ==
    /\ fn = "fit_RCEl"
    /\ pc = "loop"
    /\ k <= ZipLen(voltage_list, current_list)
    /\ \E w \in IF no_rest THEN StimWindows(current_list[k]) ELSE {<<0, 0>>} :
       \E b \in {RCElBody(voltage_list[k], current_list[k], dt, no_rest,
                           w[1], w[2], build)} :
       \E n \in SpikeCounts :
             /\ spikes' = Append(spikes, n)
             /\ warnings' = IF SpikeFound(n) THEN Append(warnings, k)
                            ELSE warnings
             /\ IF no_rest
                  THEN /\ stim_calls' = Append(stim_calls,
                            [current |-> current_list[k],
                             t |-> TimeArray(current_list[k], dt),
                             no_test_pulse |-> TRUE,
                             start_idx |-> w[1], end_idx |-> w[2]])
                       /\ start_idx' = w[1]
                       /\ end_idx' = w[2]
                  ELSE UNCHANGED <<stim_calls, start_idx, end_idx>>
             /\ voltage' = b.voltage
             /\ current' = b.current
             /\ matrix' = b.matrix
             /\ target' = b.target
             /\ IF b.err # ""
                  THEN /\ pc' = "raised"
                       /\ err' = b.err
                       /\ err_line' = b.line
                       /\ UNCHANGED <<k, out, R, C, El, lists>>
                  ELSE /\ out' = b.out
                       /\ R' = b.R
                       /\ C' = b.C
                       /\ El' = b.El
                       /\ capacitance_list' = AppendResult(capacitance_list, b.C)
                       /\ resistance_list' = AppendResult(resistance_list, b.R)
                       /\ El_list' = AppendResult(El_list, b.El)
                       /\ k' = k + 1
                       /\ UNCHANGED <<pc, err, err_line>>
    /\ UNCHANGED <<inputs, smooth_locals, result>>

\* Line 122: return resistance_list, capacitance_list, El_list
FitRCElReturn ==
    /\ fn = "fit_RCEl"
    /\ pc = "loop"
    /\ k > ZipLen(voltage_list, current_list)
    /\ pc' = "returned"
    /\ result' = <<resistance_list, capacitance_list, El_list>>
    /\ UNCHANGED <<inputs, k, err, err_line, voltage, current, smooth_locals,
                   fit_locals, lists, environment>>

----------------------------------------------------------------------------
(* least_squares_simple_circuit_fit_REl (lines 125-157).                   *)

\* Lines 138-150: one pass of the loop body.
FitRElSweep ==
    /\ fn = "fit_REl"
    /\ pc = "loop"
    /\ k <= ZipLen(voltage_list, current_list)
    /\ \E b \in {RElBody(voltage_list[k], current_list[k], Cap, dt, build)} :
           /\ voltage' = b.voltage
           /\ current' = b.current
           /\ matrix' = b.matrix
           /\ target' = b.target
           /\ IF b.err # ""
                THEN /\ pc' = "raised"
                     /\ err' = b.err
                     /\ err_line' = b.line
                     /\ UNCHANGED <<k, out, R, El, lists>>
                ELSE /\ out' = b.out
                     /\ R' = b.R
                     /\ El' = b.El
                     /\ resistance_list' = AppendResult(resistance_list, b.R)
                     /\ El_list' = AppendResult(El_list, b.El)
                     /\ k' = k + 1
                     /\ UNCHANGED <<pc, err, err_line, capacitance_list>>
    /\ UNCHANGED <<inputs, C, smooth_locals, environment, result>>

\* Line 157: return resistance_list, El_list
FitRElReturn ==
    /\ fn = "fit_REl"
    /\ pc = "loop"
    /\ k > ZipLen(voltage_list, current_list)
    /\ pc' = "returned"
    /\ result' = <<resistance_list, El_list>>
    /\ UNCHANGED <<inputs, k, err, err_line, voltage, current, smooth_locals,
                   fit_locals, lists, environment>>

----------------------------------------------------------------------------
(* The inputs the calls are explored on.                                   *)

\* The longest series of a call on a single sweep.
MaxLen == 3

\* The most samples the voltage series of one call on several sweeps hold
\* together.
MaxTotal == 4

\* The widest kernel asked for, in samples at dt = 1.
MaxWidth == 3

Builds == {"legacy", "modern"}

VoltSamples == {0, 1}

CurSamples == {0, 1}

DtSet == {<<1, 1>>, <<1, 2>>}

CapSet == {<<1, 1>>, <<3, 1>>}

\* filter_size_s in half samples, from a negative size to MaxWidth samples
FilterSizes == {Norm(q, 2) : q \in (-2)..(2 * MaxWidth)}

\* The series of n samples
Series(samples, n) ==
    {[j \in 1..n |-> Rat(f[j])] : f \in [1..n -> samples]}

SeriesUpTo(samples, lo, hi) == UNION {Series(samples, n) : n \in lo..hi}

\* A sweep: a voltage and a current series of the same length n
Sweeps(n) == Series(VoltSamples, n) \X Series(CurSamples, n)

\* The lists of sweeps, each of two samples or more, of total samples or
\* fewer in all; the empty list is one of them.
RECURSIVE SweepLists(_)
SweepLists(total) ==
    {<<>>} \cup UNION {{<<sw>> \o rest : sw \in Sweeps(n),
                                         rest \in SweepLists(total - n)}
                       : n \in 2..total}

InitControl ==
    /\ k = 1
    /\ err = ""
    /\ err_line = 0
    /\ sq_filt = Unbound
    /\ sm_v = Unbound
    /\ sm_i = Unbound
    /\ sm_dvdt = Unbound
    /\ matrix = Unbound
    /\ target = Unbound
    /\ out = Unbound
    /\ start_idx = -1
    /\ end_idx = -1
    /\ R = Unbound
    /\ C = Unbound
    /\ El = Unbound
    /\ resistance_list = <<>>
    /\ capacitance_list = <<>>
    /\ El_list = <<>>
    /\ spikes = <<>>
    /\ warnings = <<>>
    /\ stim_calls = <<>>
    /\ result = Unbound

\* A call smooth(voltage, current, filter_size_s, dt)
InitSmooth ==
    /\ fn = "smooth"
    /\ build \in Builds
    /\ voltage \in SeriesUpTo(VoltSamples, 1, MaxLen)
    /\ current \in SeriesUpTo(CurSamples, 1, MaxLen)
    /\ filter_size \in FilterSizes
    /\ dt \in DtSet
    /\ voltage_list = <<>>
    /\ current_list = <<>>
    /\ Cap = One
    /\ no_rest = FALSE
    /\ pc = "kernel"
    /\ sim = Unbound
    /\ InitControl

\* A call least_squares_simple_circuit_with_smoothing_fit_RCEl(
\* voltage_list, current_list, dt, filter_size)
InitSmoothFit ==
    /\ fn = "with_smoothing"
    /\ build \in Builds
    /\ \E l \in SweepLists(MaxTotal) :
         /\ voltage_list = [j \in 1..Len(l) |-> l[j][1]]
         /\ current_list = [j \in 1..Len(l) |-> l[j][2]]
    /\ filter_size \in {Rat(1), Rat(2)}
    /\ dt \in DtSet
    /\ Cap = One
    /\ no_rest = FALSE
    /\ voltage = Unbound
    /\ current = Unbound
    /\ pc = "loop"
    /\ sim = Unbound
    /\ InitControl

\* A call least_squares_simple_circuit_fit_RCEl(voltage_list, current_list,
\* dt) or least_squares_simple_circuit_fit_REl(voltage_list, current_list,
\* Cap, dt) on a list of sweeps of two samples or more.  The library
\* build matters to these fits only in lstsq on a matrix without rows, which
\* a sweep of two samples does not give, so one build stands for both.
InitFit ==
    /\ fn \in {"fit_RCEl", "fit_REl"}
    /\ build = "modern"
    /\ \E l \in SweepLists(MaxTotal) :
         /\ voltage_list = [j \in 1..Len(l) |-> l[j][1]]
         /\ current_list = [j \in 1..Len(l) |-> l[j][2]]
    /\ dt \in DtSet
    /\ Cap \in IF fn = "fit_REl" THEN CapSet ELSE {One}
    /\ filter_size = Zero
    /\ no_rest = FALSE
    /\ voltage = Unbound
    /\ current = Unbound
    /\ pc = "loop"
    /\ sim = Unbound
    /\ InitControl

\* A call least_squares_simple_circuit_fit_RCEl([voltage], [current], dt,
\* no_rest) on one sweep, whose two series need not be equally long
InitStim ==
    /\ fn = "fit_RCEl"
    /\ build \in Builds
    /\ \E v \in SeriesUpTo(VoltSamples, 1, MaxLen) :
       \E c \in SeriesUpTo(CurSamples, 1, MaxLen) :
         /\ voltage_list = <<v>>
         /\ current_list = <<c>>
    /\ dt \in DtSet
    /\ no_rest \in BOOLEAN
    /\ Cap = One
    /\ filter_size = Zero
    /\ voltage = Unbound
    /\ current = Unbound
    /\ pc = "loop"
    /\ sim = Unbound
    /\ InitControl

NextSmooth == SmoothKernel \/ SmoothConvolve

NextSmoothFit ==
    \/ SmoothFitNext
    \/ SmoothKernel
    \/ SmoothConvolve
    \/ SmoothFitSolve
    \/ SmoothFitReturn

NextFit == FitRCElSweep \/ FitRCElReturn \/ FitRElSweep \/ FitRElReturn

NextStim == FitRCElSweep \/ FitRCElReturn

SpecSmooth == InitSmooth /\ [][NextSmooth]_vars

SpecSmoothFit == InitSmoothFit /\ [][NextSmoothFit]_vars

SpecFit == InitFit /\ [][NextFit]_vars

SpecStim == InitStim /\ [][NextStim]_vars

\* Lines 59-67 on one sweep: smooth, then the smoothed fit.
SmoothFitOf(voltage0, current0, filter_size0, dt0, bld) ==
    CHOOSE g \in
      {SmoothedBody(sm.sm_v, sm.sm_i, sm.sm_dvdt, bld)
       : sm \in {SmoothSeries(voltage0, current0,
                    NormaliseKernel(MakeKernel(filter_size0, dt0, bld).val),
                    dt0).val}} : TRUE

----------------------------------------------------------------------------
(* Sweeps simulated from the RC model by forward Euler.                    *)

\* The most samples of a simulated sweep.
MaxEuler == 4

\* The coefficients of the recurrence v[n+1] = b0*v[n] + b1*i[n] + b2 that
\* forward Euler at step dt makes of dV/dt = (-(V - El) + R*I)/(R*C).
Forward(r, c, el, step) ==
    <<RSub(One, RDiv(step, RMul(r, c))),
      RDiv(step, c),
      RDiv(RMul(step, el), RMul(r, c))>>

RECURSIVE Euler(_, _, _, _)
Euler(b, v0, i, n) ==
    IF n = 1 THEN <<v0>>
    ELSE CHOOSE g \in
           {Append(v, RAdd(RAdd(RMul(b[1], v[n - 1]), RMul(b[2], i[n - 1])),
                           b[3]))
            : v \in {Euler(b, v0, i, n - 1)}} : TRUE

\* The ratios dt/(R*C) of the simulated sweeps: at these the simulated
\* voltages and every intermediate of the fit stay within TLC's integers.
EulerSteps == {<<1, 2>>, <<1, 1>>, <<2, 1>>}

\* A call least_squares_simple_circuit_fit_RCEl([voltage], [current], dt)
\* on a sweep simulated from R, C, El
InitEuler ==
    /\ fn = "fit_RCEl"
    /\ build \in Builds
    /\ dt \in {<<1, 1>>, <<2, 1>>}
    /\ sim \in [R : {<<1, 1>>, <<2, 1>>}, C : {<<1, 1>>, <<2, 1>>},
                El : {<<-1, 1>>, <<1, 1>>}]
    /\ RDiv(dt, RMul(sim.R, sim.C)) \in EulerSteps
    /\ \E i \in SeriesUpTo(CurSamples, 2, MaxEuler) :
       \E v0 \in {Zero, One} :
         /\ current_list = <<i>>
         /\ voltage_list =
              <<Euler(Forward(sim.R, sim.C, sim.El, dt), v0, i, Len(i))>>
    /\ Cap = One
    /\ filter_size = Zero
    /\ no_rest = FALSE
    /\ voltage = Unbound
    /\ current = Unbound
    /\ pc = "loop"
    /\ InitControl

NextEuler == FitRCElSweep \/ FitRCElReturn

SpecEuler == InitEuler /\ [][NextEuler]_vars

----------------------------------------------------------------------------
(* Properties of the two direct fits on lists of sweeps (SpecFit).         *)

\* C1. When least_squares_simple_circuit_fit_RCEl returns, its three lists
\* (two for least_squares_simple_circuit_fit_REl) have one entry per sweep
\* of voltage_list, and entry j is the fit of sweep j alone: the lists are
\* in input order.
C1_OneEntryPerSweepInOrder ==
    (pc = "returned" /\ fn \in {"fit_RCEl", "fit_REl"}) =>
        /\ Len(result) = (IF fn = "fit_RCEl" THEN 3 ELSE 2)
        /\ \A i \in 1..Len(result) : Len(result[i]) = Len(voltage_list)
        /\ \A j \in 1..Len(voltage_list) :
             IF fn = "fit_RCEl"
               THEN \E b \in {RCElBody(voltage_list[j], current_list[j], dt,
                                       no_rest,
                                       IF no_rest THEN stim_calls[j].start_idx
                                       ELSE 0,
                                       IF no_rest THEN stim_calls[j].end_idx
                                       ELSE 0, build)} :
                      /\ result[1][j] = b.R
                      /\ result[2][j] = b.C
                      /\ result[3][j] = b.El
               ELSE \E b \in {RElBody(voltage_list[j], current_list[j], Cap,
                                      dt, build)} :
                      /\ result[1][j] = b.R
                      /\ result[2][j] = b.El

\* A return on two sweeps whose fits differ, so that the order shows.
C1_TwoSweepsReturned ==
    /\ pc = "returned"
    /\ fn \in {"fit_RCEl", "fit_REl"}
    /\ Len(voltage_list) = 2
    /\ Len(result[1]) = 2
    /\ result[1][1] # result[1][2]

\* C4 as stated: a fit never returns from a sweep whose design matrix is
\* rank deficient, and no returned list holds inf or nan.
C4_RankDeficientRaises ==
    (pc = "returned" /\ fn \in {"fit_RCEl", "fit_REl"}) =>
        /\ k > 1 => Rank(matrix, IF fn = "fit_RCEl" THEN 3 ELSE 2)
                      = (IF fn = "fit_RCEl" THEN 3 ELSE 2)
        /\ \A i \in 1..Len(result) : \A j \in 1..Len(result[i]) :
             IsFinite(result[i][j])

\* C8. After least_squares_simple_circuit_fit_REl has fitted a sweep, its
\* design matrix has two columns, the voltage without its last sample and a
\* column of ones, and the target is v[n+1] - i[n]*dt/Cap.
C8_DesignTwoColumns ==
    (fn = "fit_REl" /\ k > 1) =>
        LET v == voltage_list[k - 1]
            c == current_list[k - 1]
        IN  /\ Len(matrix) = Len(v) - 1
            /\ \A r \in 1..Len(matrix) : matrix[r] = <<v[r], One>>
            /\ Len(target) = Len(v) - 1
            /\ \A r \in 1..Len(target) :
                 target[r] = RSub(v[r + 1], RDiv(RMul(c[r], dt), Cap))

\* A fitted sweep of three samples with a current that moves the target.
C8_SweepFitted ==
    /\ fn = "fit_REl"
    /\ k > 1
    /\ Len(matrix) = 2
    /\ matrix[1][1] # matrix[2][1]
    /\ target[1] # voltage_list[k - 1][2]

\* C8 as stated: the design matrix has the truncated voltage as its only
\* column.
C8_DesignOneColumn ==
    (fn = "fit_REl" /\ k > 1) =>
        /\ Len(matrix) = Len(voltage_list[k - 1]) - 1
        /\ \A r \in 1..Len(matrix) : matrix[r] = <<voltage_list[k - 1][r]>>

\* C9. In least_squares_simple_circuit_fit_RCEl the sweeps warned about are
\* exactly those the spike detector reported a spike in, each once and in
\* order; a warned sweep is fitted and appended like any other, and two
\* equal sweeps get equal entries whether or not either was warned about.
C9_SpikeWarningNonFatal ==
    fn = "fit_RCEl" =>
        /\ \A j \in 1..Len(spikes) :
             (spikes[j] > 0) <=> (\E i \in 1..Len(warnings) : warnings[i] = j)
        /\ \A i \in 1..Len(warnings) :
             /\ warnings[i] \in 1..Len(spikes)
             /\ \A h \in 1..(i - 1) : warnings[h] < warnings[i]
        /\ err = "" =>
             /\ Len(spikes) = k - 1
             /\ Len(resistance_list) = k - 1
             /\ Len(capacitance_list) = k - 1
             /\ Len(El_list) = k - 1
        /\ \A j \in 1..Len(resistance_list) :
           \A h \in 1..Len(resistance_list) :
             (voltage_list[j] = voltage_list[h]
                /\ current_list[j] = current_list[h]) =>
                    /\ resistance_list[j] = resistance_list[h]
                    /\ capacitance_list[j] = capacitance_list[h]
                    /\ El_list[j] = El_list[h]

\* A return on two equal sweeps, a spike found in the first only.
C9_WarnedAndFitted ==
    /\ fn = "fit_RCEl"
    /\ pc = "returned"
    /\ Len(voltage_list) = 2
    /\ voltage_list[1] = voltage_list[2]
    /\ current_list[1] = current_list[2]
    /\ spikes = <<1, 0>>
    /\ warnings = <<1>>
    /\ Len(result[1]) = 2
    /\ IsFinite(result[1][1])

----------------------------------------------------------------------------
(* Properties of one sweep under no_rest (SpecStim).                       *)

\* C3 as stated: a call given a sweep whose voltage and current differ in
\* length does not return.
C3_MismatchRaises ==
    (IF fn = "smooth" THEN Len(voltage) # Len(current)
     ELSE \E j \in 1..ZipLen(voltage_list, current_list) :
            Len(voltage_list[j]) # Len(current_list[j]))
        => pc # "returned"

\* C7. Once least_squares_simple_circuit_fit_RCEl has worked on a sweep:
\* under no_rest it has asked get_stim_characteristics for the window of
\* that sweep's current (with no_test_pulse=True) and kept of voltage and
\* current the samples at indices start_idx up to, not including, end_idx,
\* and without no_rest it has kept the whole sweep; the design matrix has
\* the kept voltage without its last sample as first column and one row
\* fewer than kept samples, but no row when no sample is kept.
C7_StimulusWindowKept ==
    (fn = "fit_RCEl" /\ Len(spikes) > 0) =>
        LET j == Len(spikes)
            Window(series) ==
                [i \in 1..Max(Min(end_idx, Len(series))
                              - Min(start_idx, Len(series)), 0) |->
                    series[Min(start_idx, Len(series)) + i]]
            kept_v == IF no_rest THEN Window(voltage_list[j])
                      ELSE voltage_list[j]
            kept_c == IF no_rest THEN Window(current_list[j])
                      ELSE current_list[j]
        IN  /\ no_rest =>
                 /\ Len(stim_calls) = j
                 /\ stim_calls[j].current = current_list[j]
                 /\ stim_calls[j].no_test_pulse
                 /\ Len(stim_calls[j].t) = Len(current_list[j])
                 /\ \A i \in 1..Len(current_list[j]) :
                      stim_calls[j].t[i] = RMul(Rat(i - 1), dt)
                 /\ start_idx = stim_calls[j].start_idx
                 /\ end_idx = stim_calls[j].end_idx
            /\ ~no_rest => stim_calls = <<>>
            /\ Len(voltage) = Max(Len(kept_v) - 1, 0)
            /\ \A r \in 1..Len(voltage) : voltage[r] = kept_v[r]
            /\ Len(current) = Max(Len(kept_c) - 1, 0)
            /\ \A r \in 1..Len(current) : current[r] = kept_c[r]
            /\ Len(target) = Max(Len(kept_v) - 1, 0)
            /\ \A r \in 1..Len(target) : target[r] = kept_v[r + 1]
            /\ Len(matrix) = Max(Len(kept_v) - 1, 0)
            /\ \A r \in 1..Len(matrix) :
                 /\ Len(matrix[r]) = 3
                 /\ matrix[r][1] = kept_v[r]
                 /\ matrix[r][3] = One
                 /\ (err = "" /\ Len(current) = Len(voltage)) =>
                        matrix[r][2] = kept_c[r]

\* A sweep of three samples cut to the window [1, 3) and fitted.
C7_WindowCut ==
    /\ fn = "fit_RCEl"
    /\ no_rest
    /\ Len(spikes) = 1
    /\ Len(voltage_list[1]) = 3
    /\ Len(current_list[1]) = 3
    /\ start_idx = 1
    /\ end_idx = 3
    /\ err = ""
    /\ Len(matrix) = 1
    /\ voltage_list[1][1] # voltage_list[1][2]
    /\ current_list[1][1] # current_list[1][2]

\* C7 as stated: the design matrix has one row fewer than kept samples.
C7_RowsOneFewer ==
    (fn = "fit_RCEl" /\ Len(spikes) > 0) =>
        Len(matrix) =
          (IF no_rest
             THEN Max(Min(end_idx, Len(voltage_list[Len(spikes)]))
                      - Min(start_idx, Len(voltage_list[Len(spikes)])), 0)
             ELSE Len(voltage_list[Len(spikes)])) - 1

----------------------------------------------------------------------------
(* Properties of the smoothed fit (SpecSmoothFit).                         *)

----------------------------------------------------------------------------
(* Properties of smooth (SpecSmooth).                                      *)

\* C5 as stated: when round(filter_size_s/dt, 1) gives a kernel of no or
\* fewer than no samples, smooth is ended by an error at the creation of
\* the kernel (line 28), before the kernel is divided by its length and
\* before any convolution.
C5_FailsAtKernel ==
    (fn = "smooth" /\ FilterWidth(filter_size, dt) <= 0) =>
        /\ pc \in {"kernel", "raised"}
        /\ pc = "raised" => err_line = 28

\* C6 as stated: on a sweep of n >= 2 samples and a kernel of w >= 1
\* samples, smooth returns three series of n - 1 entries each, also when
\* w > n - 1.
C6_SmoothedLength ==
    (/\ fn = "smooth"
     /\ pc = "returned"
     /\ Len(voltage) >= 2
     /\ Len(current) = Len(voltage)
     /\ FilterWidth(filter_size, dt) >= 1) =>
        /\ Len(result) = 3
        /\ \A i \in 1..3 : Len(result[i]) = Len(voltage) - 1

----------------------------------------------------------------------------
(* The round trip of a simulated sweep (SpecEuler).                        *)

\* C10. When the sweep was simulated by forward Euler from R, C, El at step
\* dt and its design matrix has full column rank, the least-squares
\* coefficients are the (b0, b1, b2) of the recurrence and
\* least_squares_simple_circuit_fit_RCEl returns R, C and El: the inversion
\* of lines 109-111 is the inverse of the forward map.
C10_EulerRoundTrip ==
    (/\ fn = "fit_RCEl"
     /\ DOMAIN sim = {"R", "C", "El"}
     /\ pc = "returned"
     /\ Rank(matrix, 3) = 3) =>
        /\ out = Forward(sim.R, sim.C, sim.El, dt)
        /\ InvertRCEl(Forward(sim.R, sim.C, sim.El, dt), dt)
             = [R |-> sim.R, C |-> sim.C, El |-> sim.El]
        /\ result = <<<<sim.R>>, <<sim.C>>, <<sim.El>>>>

\* A return from a simulated sweep of full rank whose leak term 1 - b0
\* differs from b0.
C10_FullRankReturned ==
    /\ fn = "fit_RCEl"
    /\ DOMAIN sim = {"R", "C", "El"}
    /\ pc = "returned"
    /\ Rank(matrix, 3) = 3
    /\ out[1] # <<1, 2>>
    /\ sim.R # sim.C
    /\ result = <<<<sim.R>>, <<sim.C>>, <<sim.El>>>>
=============================================================================
